---- MODULE Spec2Model ----
(***************************************************************************)
(* Model of the regulatory-update monitoring pipeline of                   *)
(* src/monitoring_system.py (ComplianceMonitoringSystem): the scheduling   *)
(* loop, check_regulatory_updates (load, fetch, merge, save) and           *)
(* _check_and_send_alerts (reload, count, threshold, dispatch, ledger).    *)
(*                                                                         *)
(* The parts around the pipeline are modelled each on its own, with a      *)
(* specification of its own: the scraper's loop over the sources, its date *)
(* normaliser and choice of the query date, its HTTP retry, the LLM        *)
(* boundary of src/ai_compliance_analyzer.py, the alert ledger at the      *)
(* resolution of a second, and the report routes of src/web_app.py.        *)
(*                                                                         *)
(* Time is counted in whole days.  The three JSON files are modelled as    *)
(* a readable flag plus the decoded content; a file that a failed write    *)
(* left truncated is unreadable.                                           *)
(***************************************************************************)
EXTENDS Integers, Sequences, FiniteSets, TLC

VARIABLES
    now,                    \* wall clock, datetime.now(), in days
    cycles,                 \* number of cycles the scheduling loop has started
    pc,                     \* position of the single monitoring thread
    config_alert_threshold, \* config['monitoring'].get('alert_threshold')
    config_ojDate,          \* scraper config.get('ojDate')
    updates_file,           \* regulatory_updates.json
    alerts_file,            \* client_alerts_db.json
    existing_updates,       \* local of check_regulatory_updates
    has_new_updates,        \* local of check_regulatory_updates
    updates,                \* local of _check_and_send_alerts
    client_alerts,          \* local of _check_and_send_alerts
    clients,                \* local of _check_and_send_alerts
    recent_update_count,    \* local of _check_and_send_alerts
    pending,                \* clients the dispatch loop has still to visit
    attempted,              \* clients for which delivery was attempted this cycle
    failed,                 \* clients whose delivery raised this cycle
    events,                 \* what the current cycle has done so far, in order
    added,                  \* number of records the merge of this cycle appended
    skipped,                \* number of fetched records the merge found already present
    replay,                 \* the fetcher returned the batch it returned in the previous cycle
    prev_fetched,           \* the previous cycle fetched the page (kept for a fixed page)
    carried,                \* the persisted log is the log the last cycle ended with (same)
    resumed,                \* this cycle loaded the log the previous cycle ended with
    armed,                  \* an alert fired and the window count stayed >= threshold
    faults,                 \* I/O faults injected so far
    fetcher,                \* the update source: live, or one that repeats its rows
    html_body,              \* the records listed in the notification, per source
    sources_changed,        \* the sources to which the merge of this cycle appended
    loop_pc,                \* position of start_monitoring's while loop
    clock,                  \* the loop's time, in sleeps of the loop (minutes)
    check_interval,         \* config['monitoring']['check_interval_hours'], in the same unit
    next_run,               \* next_run of the scheduled job
    last_run,               \* last_run of the scheduled job (0 before the first run)
    in_flight,              \* calls of check_regulatory_updates in progress
    job_start,              \* time at which the job in progress, or the last one, started
    overran,                \* the last job was still running when its next tick came due
    loop_errors,            \* exceptions the loop's handler has logged
    fetch_pc,               \* position inside EURegulatoryScraper.check_for_updates
    all_updates,            \* local of check_for_updates
    fetched_keys,           \* keys of regulation_sources the loop has visited
    scraped,                \* what scraping each visited source gave
    date_pc,                \* position of the call of _format_ojdate
    date_input,             \* argument of _format_ojdate
    ojdate_result,          \* what _format_ojdate returned, or that it raised
    scrape_pc,              \* position of the call of scrape_regulation_updates
    regulation_key,         \* argument of scrape_regulation_updates
    scraper_ojDate,         \* self.config.get('ojDate') of the scraper, as given
    scraper_today,          \* datetime.now() of the scraper, as a calendar date
    ojDate_str,             \* local of scrape_regulation_updates
    analyzer_pc,            \* position of the call of analyze_compliance
    business_info,          \* argument of analyze_compliance
    attempt,                \* loop variable of _call_deepseek_api
    api_log,                \* how the attempts of _call_deepseek_api made so far failed
    api_response,           \* what _call_deepseek_api returned (response.json())
    analysis_result,        \* what analyze_compliance returned
    fired,                  \* the firings of the alert so far: second of the clock, count
    request_pc,             \* position of the outermost call of _make_request
    max_retries,            \* self.max_retries of the scraper
    stack,                  \* the nested calls of _make_request, outermost first
    attempts,               \* calls of session.get made by the outermost call so far
    db_clients,             \* rows of the table clients
    db_reports,             \* rows of the table reports
    session,                \* the Flask session of each browser: 'client_id', if any
    response                \* the last response of view_report or download_report

cycle_vars == <<now, cycles, pc, config_alert_threshold, config_ojDate, updates_file,
                alerts_file, existing_updates, has_new_updates, updates, client_alerts,
                clients, recent_update_count, pending, attempted, failed, events, added,
                skipped, replay, prev_fetched, carried, resumed, armed, faults, fetcher,
                html_body, sources_changed>>

loop_vars == <<loop_pc, clock, check_interval, next_run, last_run, in_flight, job_start,
               overran, loop_errors>>

fetch_vars == <<fetch_pc, all_updates, fetched_keys, scraped>>

date_vars == <<date_pc, date_input, ojdate_result, scrape_pc, regulation_key,
               scraper_ojDate, scraper_today, ojDate_str>>

analyzer_vars == <<analyzer_pc, business_info, attempt, api_log, api_response,
                   analysis_result>>

ledger_vars == <<fired>>

request_vars == <<request_pc, max_retries, stack, attempts>>

web_vars == <<db_clients, db_reports, session, response>>

unit_vars == <<fetch_vars, date_vars, analyzer_vars, ledger_vars, request_vars, web_vars>>

vars == <<cycle_vars, loop_vars, unit_vars>>

----------------------------------------------------------------------------
(* Bounds of the model *)

\* Firings of the alert followed at the resolution of a second, and the
\* seconds of the clock they can fall in.
MaxFirings == 3

MaxSecond == 2

\* Calls of _make_request nested in one another.
MaxDepth == 5

MaxCycles == 2
MaxBatch == 3
MaxFaults == 1
MaxTime == 8
MaxClock == 9
MaxDuration == 4
MaxLog == 4
MaxStamp == 1

(* Program constants *)

WindowDays == 7
DefaultAlertThreshold == 3
MaxShown == 3

\* Titles a scraped row can carry.
Titles == {"Reg A", "Reg B"}
\* The keys of regulation_sources.  The scraper ships the key 'eur-lex'; the
\* loops over sources are written for any number of keys, and the model has
\* a second one so that they run over more than one source.
RegulationSources == {"eur-lex", "gazette"}
\* The content of clients_db.json, which the monitoring code only reads.
RegisteredClients == <<"c1", "c2">>
NoValue == <<>>
\* The configurations the model runs under: the default files (no alert
\* threshold given, no ojDate), and files that set both.
DefaultConfiguration == [alert_threshold |-> NoValue, ojDate |-> NoValue]
CustomConfiguration == [alert_threshold |-> <<2>>, ojDate |-> <<0>>]
Configurations == {DefaultConfiguration, CustomConfiguration}
\* Days between two runs of the job; day 0 is the day of the first run.
Waits == {0, WindowDays, WindowDays + 1}

WaitsAfter(n) == IF n = 0 THEN {0} ELSE Waits

----------------------------------------------------------------------------
(* Data *)

EmptyLog == [s \in RegulationSources |-> <<>>]

EmptyLedger == {}

ReadableFile(content) == [ok |-> TRUE, data |-> content]

TruncatedFile(empty) == [ok |-> FALSE, data |-> empty]

SeqsUpTo(S, n) == UNION {[1..k -> S] : k \in 0..n}

RECURSIVE SumOver(_, _)
SumOver(S, f) ==
    IF S = {} THEN 0
    ELSE LET x == CHOOSE y \in S : TRUE
         IN  f[x] + SumOver(S \ {x}, f)

----------------------------------------------------------------------------
(* The update fetcher: EURegulatoryScraper.check_for_updates *)

\* scrape_regulation_updates without a '::' override: the configured ojDate
\* when there is one, today otherwise; every record of the batch carries it
\* as its nominal date.
OjDate(cfg, today) == IF cfg = NoValue THEN today ELSE cfg[1]

ScrapedRecord(title, ojdate) == [title |-> title, date |-> ojdate]

\* What scraping one source can give: it raises, or it returns the titles
\* of the rows found, in page order (possibly with repeats).
ScrapeOutcomes ==
    {[raised |-> TRUE, rows |-> <<>>]}
        \cup {[raised |-> FALSE, rows |-> q] : q \in SeqsUpTo(Titles, MaxBatch)}

\* check_for_updates: one entry per key of regulation_sources; a source whose
\* scrape raised yields the empty list.
\* One fetch: the outcome of every source, at most MaxBatch rows in all.
FetchOutcomes ==
    {o \in [RegulationSources -> ScrapeOutcomes] :
        Cardinality({<<s, i>> \in RegulationSources \X (1..MaxBatch) :
                        i <= Len(o[s].rows)}) <= MaxBatch}

LiveFetcher == [fixed |-> FALSE, outcome |-> [s \in RegulationSources |-> [raised |-> FALSE, rows |-> <<>>]]]

\* A source whose page does not change between two runs.
FixedFetchers == {[fixed |-> TRUE, outcome |-> o] : o \in {x \in FetchOutcomes : \A s \in RegulationSources : ~x[s].raised}}

\* What the next fetch can give.
Fetchable(f) == IF f.fixed THEN {f.outcome} ELSE FetchOutcomes

check_for_updates(outcome, ojdate) ==
    [s \in RegulationSources |->
        IF outcome[s].raised THEN <<>>
        ELSE [i \in 1..Len(outcome[s].rows) |-> ScrapedRecord(outcome[s].rows[i], ojdate)]]

----------------------------------------------------------------------------
(* Deduplication and merge: check_regulatory_updates, lines 131-150 *)

\* A faulty is_new that looks at the last record of the list only.
IsNewLastOnly(existing, update) ==
    existing = <<>> \/ existing[Len(existing)].title # update.title

\* is_new: no record already in the list of this source has the title.
IsNew(existing, update) ==
    \A i \in 1..Len(existing) : existing[i].title # update.title

Stamp(update, t) ==
    [title |-> update.title, date |-> update.date, discovered_date |-> t]

\* A faulty inner loop that tests every fetched record against the list as it
\* was loaded, not against the records appended earlier in the same call.
MergeSourceSnapshot(existing, incoming, t) ==
    LET Fresh(u) == IsNew(existing, u)
        fresh == SelectSeq(incoming, Fresh)
    IN  existing \o [i \in 1..Len(fresh) |-> Stamp(fresh[i], t)]

\* A faulty inner loop that puts the new records in front of the list.
MergeSourcePrepend(existing, incoming, t) ==
    LET Fresh(u) == IsNew(existing, u)
        fresh == SelectSeq(incoming, Fresh)
    IN  [i \in 1..Len(fresh) |-> Stamp(fresh[i], t)] \o existing

\* The inner loop: each fetched record is tested against the list as it is
\* at that moment, records appended earlier in the same call included.
RECURSIVE MergeSource(_, _, _)
MergeSource(existing, incoming, t) ==
    IF incoming = <<>> THEN existing
    ELSE IF IsNew(existing, Head(incoming))
         THEN MergeSource(Append(existing, Stamp(Head(incoming), t)), Tail(incoming), t)
         ELSE MergeSource(existing, Tail(incoming), t)

Merge(existing, incoming, t) ==
    [s \in RegulationSources |-> MergeSource(existing[s], incoming[s], t)]

AddedCount(before, after) ==
    SumOver(RegulationSources, [s \in RegulationSources |-> Len(after[s]) - Len(before[s])])

BatchSize(incoming) ==
    SumOver(RegulationSources, [s \in RegulationSources |-> Len(incoming[s])])

----------------------------------------------------------------------------
(* Alert threshold evaluator: _check_and_send_alerts, lines 192-204 *)

\* threshold_date = now - timedelta(days=7)
ThresholdDate(t) == t - WindowDays

\* A faulty window test on the nominal date of the record.
InWindowByDate(update, threshold_date) == update.date >= threshold_date

InWindow(update, threshold_date) == update.discovered_date >= threshold_date

RECURSIVE CountSource(_, _)
CountSource(regulation_updates, threshold_date) ==
    IF regulation_updates = <<>> THEN 0
    ELSE (IF InWindow(Head(regulation_updates), threshold_date) THEN 1 ELSE 0)
         + CountSource(Tail(regulation_updates), threshold_date)

RecentUpdateCount(log, t) ==
    SumOver(RegulationSources,
            [s \in RegulationSources |-> CountSource(log[s], ThresholdDate(t))])

\* A faulty lookup that ignores the configured threshold.
AlertThresholdDefaultOnly(cfg) == DefaultAlertThreshold

\* self.config.get('monitoring', {}).get('alert_threshold', 3)
AlertThreshold(cfg) == IF cfg = NoValue THEN DefaultAlertThreshold ELSE cfg[1]

\* A faulty comparison that needs more than the threshold.
ThresholdReachedStrict(count, alert_threshold) == count > alert_threshold

ThresholdReached(count, alert_threshold) == count >= alert_threshold

\* A faulty entry that marks the alert as sent only when no delivery failed.
AlertEventSentIfDelivered(t, count) ==
    [id |-> <<t, cycles>>, date |-> t, update_count |-> count, updates_sent |-> (failed = {})]

\* alert_id is the firing time to the second.  Every fetch sleeps a second
\* (src/eu_regulatory_scraper.py line 315), so two cycles of the one thread
\* fire in different seconds: the second within the day is given by the
\* number of the cycle.
AlertId(t) == <<t, cycles>>

\* The entry is stored under alert_id, replacing an entry with the same key.
AlertEvent(t, count) ==
    [id |-> AlertId(t), date |-> t, update_count |-> count, updates_sent |-> TRUE]

\* A faulty ledger that keeps an entry per firing.
PutAlertKeepBoth(ledger, event) == ledger \cup {event}

PutAlert(ledger, event) == {e \in ledger : e.id # event.id} \cup {event}

----------------------------------------------------------------------------
(* Files *)

\* with open(path, 'w') as f: json.dump(content, f): the open can fail before
\* the file is touched; once opened the file is truncated, and a dump that
\* fails part-way leaves it truncated.
WriteOutcomes == {"ok", "open_failed", "partial"}

WriteFile(file, content, outcome, empty) ==
    CASE outcome = "ok" -> ReadableFile(content)
      [] outcome = "open_failed" -> file
      [] outcome = "partial" -> TruncatedFile(empty)

\* What json.load gives for a file, or the handler's default when it raises.
ReadFile(file, read_ok, default) ==
    IF read_ok /\ file.ok THEN file.data ELSE default

\* An injected fault uses up the budget; a success costs nothing.
Budget(is_fault) == IF is_fault THEN faults < MaxFaults ELSE TRUE

Cost(is_fault) == IF is_fault THEN 1 ELSE 0

----------------------------------------------------------------------------
(* Notification: _send_alerts_to_clients, lines 255-272 *)

Min(a, b) == IF a <= b THEN a ELSE b

\* One step of a stable sort in descending order of discovered_date: the
\* record goes behind every record whose key is at least its own.
RECURSIVE InsertByDiscovery(_, _)
InsertByDiscovery(sorted, update) ==
    IF sorted = <<>> THEN <<update>>
    ELSE IF Head(sorted).discovered_date >= update.discovered_date
         THEN <<Head(sorted)>> \o InsertByDiscovery(Tail(sorted), update)
         ELSE <<update>> \o sorted

\* sorted(regulation_updates, key=discovered_date, reverse=True): the sort is
\* stable, records with equal keys keep the order they have in the list.
RECURSIVE SortedByDiscovery(_)
SortedByDiscovery(regulation_updates) ==
    IF regulation_updates = <<>> THEN <<>>
    ELSE InsertByDiscovery(
            SortedByDiscovery(SubSeq(regulation_updates, 1, Len(regulation_updates) - 1)),
            regulation_updates[Len(regulation_updates)])

\* A faulty choice: the last records of the list, newest first.
RecentUpdatesTail(regulation_updates) ==
    LET n == Len(regulation_updates)
        k == Min(MaxShown, n)
    IN  [i \in 1..k |-> regulation_updates[n + 1 - i]]

\* recent_updates = sorted(...)[:3]
RecentUpdates(regulation_updates) ==
    LET sorted == SortedByDiscovery(regulation_updates)
    IN  SubSeq(sorted, 1, Min(MaxShown, Len(sorted)))

\* The loop over updates.items(): one section for every source of the log.
HtmlBody(log) == [s \in RegulationSources |-> RecentUpdates(log[s])]

----------------------------------------------------------------------------
(* Control flow of a cycle *)

\* A faulty flow that saves and evaluates after every merge.
AfterMergeAlways(has_new) == "save"

\* A faulty flow that never saves.
AfterMergeNever(has_new) == "done"

\* line 153: if has_new_updates
AfterMerge(has_new) == IF has_new THEN "save" ELSE "done"

\* A faulty flow with the alert check placed after the try block.
AfterSaveAlways(outcome) == "alerts"

\* lines 154-162: _check_and_send_alerts is called inside the try, after the
\* dump; an exception of the write skips it.
AfterSave(outcome) == IF outcome = "ok" THEN "alerts" ELSE "done"

\* A faulty flow that consults the alert history and fires only when it is empty.
AfterEvaluateOnce(count, alert_threshold) ==
    IF count >= alert_threshold /\ alerts_file.data = {} THEN "send" ELSE "done"

\* line 204: if recent_update_count >= alert_threshold
AfterEvaluate(count, alert_threshold) ==
    IF ThresholdReached(count, alert_threshold) THEN "send" ELSE "done"

\* A faulty loop that the exception of a delivery leaves.
AfterDeliveryAbort(delivered, rest) == IF delivered THEN rest ELSE <<>>

\* lines 289-312: the body of the loop over clients is one try block whose
\* handler logs the failure; the loop goes on with the clients that are left.
AfterDelivery(delivered, rest) == rest

\* The window count of the persisted log, as a reader of the file sees it.
PersistedCount(file, t) == RecentUpdateCount(ReadFile(file, TRUE, EmptyLog), t)

StillArmed(file, t) ==
    armed /\ ThresholdReached(PersistedCount(file, t), AlertThreshold(config_alert_threshold))

\* Values handed to _format_ojdate: None, a string (a sequence of
\* characters), or a date object <<day, month, year>>.
NoDate == [kind |-> "none", text |-> <<>>, value |-> <<>>]

DateString(text) == [kind |-> "str", text |-> text, value |-> <<>>]

DateObject(d, m, y) == [kind |-> "date", text |-> <<>>, value |-> <<d, m, y>>]

NotReturned == [raised |-> FALSE, value |-> <<>>]

\* A decoded response body: a JSON list, or a JSON object whose 'choices' is
\* missing, null, an empty list, or a list whose first message has a content
\* that is missing, null or a string.
Body(kind, choices, content_kind, content) ==
    [kind |-> kind, choices |-> choices, content_kind |-> content_kind, content |-> content]

NoBody == Body("none", "missing", "missing", "")

\* The dictionary analyze_compliance returns: the keys it has and the value
\* of each.
NoResult ==
    [keys |-> {}, regulatory_requirements |-> <<>>, compliance_gaps |-> <<>>,
     action_items |-> <<>>, risks |-> <<>>, overall_compliance_score |-> 0,
     raw_response |-> "", business_info |-> ""]

Browsers == {"browser_1", "browser_2"}

\* A response to a request for a report: the route, the report asked for,
\* the session['client_id'] of the request (none: the empty tuple), what was
\* answered, and the owner of the data answered, if any.
Response(route, report_id, session_client, kind, owner) ==
    [route |-> route, report_id |-> report_id, session_client |-> session_client,
     kind |-> kind, owner |-> owner]

NoResponse == Response("none", "", NoValue, "none", NoValue)

\* None of the parts modelled on their own has been called: the tables of the
\* web application are empty (init_db) and no browser has a session.
UnitsIdle ==
    /\ fetch_pc = "idle"
    /\ all_updates = EmptyLog
    /\ fetched_keys = {}
    /\ scraped = LiveFetcher.outcome
    /\ date_pc = "idle"
    /\ date_input = NoDate
    /\ ojdate_result = NotReturned
    /\ scrape_pc = "idle"
    /\ regulation_key = <<>>
    /\ scraper_ojDate = NoDate
    /\ scraper_today = <<>>
    /\ ojDate_str = <<>>
    /\ analyzer_pc = "idle"
    /\ business_info = ""
    /\ attempt = 0
    /\ api_log = <<>>
    /\ api_response = NoBody
    /\ analysis_result = NoResult
    /\ fired = <<>>
    /\ request_pc = "idle"
    /\ max_retries = 0
    /\ stack = <<>>
    /\ attempts = 0
    /\ db_clients = {}
    /\ db_reports = {}
    /\ session = [b \in Browsers |-> NoValue]
    /\ response = NoResponse

InitCommon ==
    /\ UnitsIdle
    /\ now = 0
    /\ cycles = 0
    /\ pc = "idle"
    /\ updates_file = ReadableFile(EmptyLog)
    /\ alerts_file = ReadableFile(EmptyLedger)
    /\ existing_updates = EmptyLog
    /\ has_new_updates = FALSE
    /\ updates = EmptyLog
    /\ client_alerts = EmptyLedger
    /\ clients = <<>>
    /\ recent_update_count = 0
    /\ pending = <<>>
    /\ attempted = {}
    /\ failed = {}
    /\ events = <<>>
    /\ added = 0
    /\ skipped = 0
    /\ replay = FALSE
    /\ prev_fetched = FALSE
    /\ carried = FALSE
    /\ resumed = FALSE
    /\ armed = FALSE
    /\ faults = 0
    /\ html_body = EmptyLog
    /\ sources_changed = {}

Configured(c) ==
    /\ config_alert_threshold = c.alert_threshold
    /\ config_ojDate = c.ojDate

\* The scheduling loop before start_monitoring is called; a cycle can be run
\* without it, as at line 407.
LoopNotStarted ==
    /\ loop_pc = "not_started"
    /\ clock = 0
    /\ check_interval = 0
    /\ next_run = 0
    /\ last_run = 0
    /\ in_flight = 0
    /\ job_start = 0
    /\ overran = FALSE
    /\ loop_errors = 0

Init ==
    /\ InitCommon
    /\ LoopNotStarted
    /\ \E c \in Configurations : Configured(c)
    /\ fetcher = LiveFetcher

\* The pipeline in front of a source whose page is the same at every fetch
\* (a configured ojDate, an unchanged page).
InitReplay ==
    /\ InitCommon
    /\ LoopNotStarted
    /\ Configured(CustomConfiguration)
    /\ fetcher \in FixedFetchers

\* start_monitoring runs the job when it is due; check_regulatory_updates,
\* lines 116-129: load the existing log ({} on error), fetch, and return False
\* when the call of the fetcher raises (the handler of lines 127-129).
CheckFetchRaises ==
    /\ UNCHANGED loop_vars
    /\ UNCHANGED unit_vars
    /\ UNCHANGED <<html_body, sources_changed>>
    /\ pc = "idle"
    /\ cycles < MaxCycles
    /\ cycles' = cycles + 1
    /\ \E wait \in WaitsAfter(cycles), read_ok \in BOOLEAN :
        /\ now + wait <= MaxTime
        /\ now' = now + wait
        /\ armed' = StillArmed(updates_file, now')
        /\ faults + Cost(~read_ok) + 1 <= MaxFaults
        /\ faults' = faults + Cost(~read_ok) + 1
        /\ existing_updates' = ReadFile(updates_file, read_ok, EmptyLog)
        /\ resumed' = (carried /\ read_ok /\ updates_file.ok)
        /\ events' = <<IF read_ok /\ updates_file.ok THEN "load" ELSE "load_failed",
                       "fetch_failed">>
    /\ pc' = "done"
    /\ UNCHANGED <<config_alert_threshold, config_ojDate, updates_file, alerts_file,
                   has_new_updates, updates, client_alerts, clients,
                   recent_update_count, pending, attempted, failed, added, skipped,
                   replay, prev_fetched, carried, fetcher>>

\* start_monitoring runs the job when it is due; check_regulatory_updates,
\* lines 116-153: load the existing log ({} on error), fetch, merge the batch
\* into the log, stamping each new record with the time of its discovery.
CheckAndMerge ==
    /\ UNCHANGED loop_vars
    /\ UNCHANGED unit_vars
    /\ UNCHANGED <<html_body>>
    /\ pc = "idle"
    /\ cycles < MaxCycles
    /\ cycles' = cycles + 1
    /\ \E wait \in WaitsAfter(cycles), read_ok \in BOOLEAN, outcome \in Fetchable(fetcher) :
        LET loaded == ReadFile(updates_file, read_ok, EmptyLog)
            new_updates == check_for_updates(outcome, OjDate(config_ojDate, now + wait))
        IN  /\ now + wait <= MaxTime
            /\ Budget(~read_ok)
            /\ now' = now + wait
            /\ armed' = StillArmed(updates_file, now')
            /\ faults' = faults + Cost(~read_ok)
            /\ existing_updates' = Merge(loaded, new_updates, now')
            /\ added' = AddedCount(loaded, existing_updates')
            /\ sources_changed' = {s \in RegulationSources :
                                    Len(existing_updates'[s]) > Len(loaded[s])}
            /\ skipped' = BatchSize(new_updates) - added'
            /\ resumed' = (carried /\ read_ok /\ updates_file.ok)
            /\ replay' = (fetcher.fixed /\ prev_fetched)
            /\ events' = <<IF read_ok /\ updates_file.ok THEN "load" ELSE "load_failed",
                           "fetch", "merge">>
    /\ has_new_updates' = (added' > 0)
    /\ pc' = AfterMerge(has_new_updates')
    /\ UNCHANGED <<config_alert_threshold, config_ojDate, updates_file, alerts_file,
                   updates, client_alerts, clients, recent_update_count, pending,
                   attempted, failed, prev_fetched, carried, fetcher>>

\* check_regulatory_updates, lines 153-162: write the whole log.
SaveUpdates ==
    /\ UNCHANGED loop_vars
    /\ UNCHANGED unit_vars
    /\ UNCHANGED <<html_body, sources_changed>>
    /\ pc = "save"
    /\ \E outcome \in WriteOutcomes :
        /\ Budget(outcome # "ok")
        /\ faults' = faults + Cost(outcome # "ok")
        /\ updates_file' = WriteFile(updates_file, existing_updates, outcome, EmptyLog)
        /\ events' = Append(events, IF outcome = "ok" THEN "save" ELSE "save_failed")
        /\ pc' = AfterSave(outcome)
        /\ armed' = StillArmed(updates_file', now)
    /\ UNCHANGED <<now, cycles, config_alert_threshold, config_ojDate, alerts_file,
                   existing_updates, has_new_updates, updates,
                   client_alerts, clients, recent_update_count, pending, attempted,
                   failed, added, skipped, replay, prev_fetched, carried, resumed, fetcher>>

\* _check_and_send_alerts, lines 170-176: the log cannot be read back; return.
ReloadFails ==
    /\ UNCHANGED loop_vars
    /\ UNCHANGED unit_vars
    /\ UNCHANGED <<html_body, sources_changed>>
    /\ pc = "alerts"
    /\ Budget(updates_file.ok)
    /\ faults' = faults + Cost(updates_file.ok)
    /\ events' = Append(events, "reload_failed")
    /\ pc' = "done"
    /\ UNCHANGED <<now, cycles, config_alert_threshold, config_ojDate, updates_file,
                   alerts_file, existing_updates, has_new_updates,
                   updates, client_alerts, clients, recent_update_count, pending,
                   attempted, failed, added, skipped, replay, prev_fetched, carried, resumed,
                   armed, fetcher>>

\* _check_and_send_alerts, lines 170-208: read the three files, count the
\* records of the trailing window and compare with the threshold.
EvaluateAlerts ==
    /\ UNCHANGED loop_vars
    /\ UNCHANGED unit_vars
    /\ UNCHANGED <<sources_changed>>
    /\ pc = "alerts"
    /\ updates_file.ok
    /\ updates' = ReadFile(updates_file, TRUE, EmptyLog)
    /\ \E alerts_ok \in BOOLEAN, clients_ok \in BOOLEAN :
        /\ faults + Cost(~alerts_ok) + Cost(~clients_ok) <= MaxFaults
        /\ faults' = faults + Cost(~alerts_ok) + Cost(~clients_ok)
        /\ client_alerts' = ReadFile(alerts_file, alerts_ok, EmptyLedger)
        /\ clients' = IF clients_ok THEN RegisteredClients ELSE <<>>
        /\ recent_update_count' = RecentUpdateCount(updates', now)
        /\ pc' = AfterEvaluate(recent_update_count', AlertThreshold(config_alert_threshold))
        /\ pending' = IF pc' = "send" THEN clients' ELSE <<>>
        /\ html_body' = IF pc' = "send" THEN HtmlBody(updates') ELSE EmptyLog
        /\ events' = events
                \o (IF alerts_ok /\ alerts_file.ok THEN <<>> ELSE <<"ledger_read_failed">>)
                \o (IF clients_ok THEN <<>> ELSE <<"clients_read_failed">>)
                \o <<"evaluate">>
                \o (IF pc' = "send" THEN <<"dispatch">> ELSE <<>>)
        /\ armed' = (armed \/ pc' = "send")
    /\ UNCHANGED <<now, cycles, config_alert_threshold, config_ojDate, updates_file,
                   alerts_file, existing_updates, has_new_updates,
                   attempted, failed, added, skipped, replay, prev_fetched, carried, resumed,
                   fetcher>>

\* _send_alerts_to_clients, lines 289-312: one pass of the loop over clients.
SendAlert ==
    /\ UNCHANGED loop_vars
    /\ UNCHANGED unit_vars
    /\ UNCHANGED <<html_body, sources_changed>>
    /\ pc = "send"
    /\ pending # <<>>
    /\ attempted' = attempted \cup {Head(pending)}
    /\ \E delivered \in BOOLEAN :
        /\ failed' = IF delivered THEN failed ELSE failed \cup {Head(pending)}
        /\ pending' = AfterDelivery(delivered, Tail(pending))
    /\ UNCHANGED <<now, cycles, pc, faults, config_alert_threshold, config_ojDate,
                   updates_file, alerts_file, existing_updates, has_new_updates,
                   updates, client_alerts, clients, recent_update_count, events,
                   added, skipped, replay, prev_fetched, carried, resumed, armed,
                   fetcher>>

\* _check_and_send_alerts, lines 210-225: add the alert to the history, save it.
RecordAlert ==
    /\ UNCHANGED loop_vars
    /\ UNCHANGED unit_vars
    /\ UNCHANGED <<html_body, sources_changed>>
    /\ pc = "send"
    /\ pending = <<>>
    /\ client_alerts' = PutAlert(client_alerts, AlertEvent(now, recent_update_count))
    /\ \E outcome \in WriteOutcomes :
        /\ Budget(outcome # "ok")
        /\ faults' = faults + Cost(outcome # "ok")
        /\ alerts_file' = WriteFile(alerts_file, client_alerts', outcome, EmptyLedger)
        /\ events' = Append(events, IF outcome = "ok" THEN "ledger" ELSE "ledger_failed")
    /\ pc' = "done"
    /\ UNCHANGED <<now, cycles, config_alert_threshold, config_ojDate, updates_file,
                   existing_updates, has_new_updates, updates, clients,
                   recent_update_count, pending, attempted, failed, added, skipped, replay,
                   prev_fetched, carried, resumed, armed, fetcher>>

\* check_regulatory_updates returns; the loop is idle until the next run.
Return ==
    /\ UNCHANGED loop_vars
    /\ UNCHANGED unit_vars
    /\ pc = "done"
    /\ pc' = "idle"
    /\ prev_fetched' = (fetcher.fixed /\ \E i \in 1..Len(events) : events[i] = "fetch")
    /\ carried' = (fetcher.fixed /\ updates_file.ok /\ updates_file.data = existing_updates)
    /\ existing_updates' = EmptyLog
    /\ has_new_updates' = FALSE
    /\ updates' = EmptyLog
    /\ client_alerts' = EmptyLedger
    /\ clients' = <<>>
    /\ recent_update_count' = 0
    /\ pending' = <<>>
    /\ attempted' = {}
    /\ failed' = {}
    /\ events' = <<>>
    /\ added' = 0
    /\ skipped' = 0
    /\ replay' = FALSE
    /\ resumed' = FALSE
    /\ html_body' = EmptyLog
    /\ sources_changed' = {}
    /\ UNCHANGED <<now, cycles, config_alert_threshold, config_ojDate, updates_file,
                   alerts_file, armed, faults, fetcher>>

Next ==
    \/ CheckFetchRaises
    \/ CheckAndMerge
    \/ SaveUpdates
    \/ ReloadFails
    \/ EvaluateAlerts
    \/ SendAlert
    \/ RecordAlert
    \/ Return

Spec == Init /\ [][Next]_vars

SpecReplay == InitReplay /\ [][Next]_vars

----------------------------------------------------------------------------
(* The scheduling loop: start_monitoring, lines 380-400 *)

\* The loop on its own: the job is check_regulatory_updates taken as a whole,
\* a call that takes some time and then returns (also when it has logged an
\* error of its own) or lets an exception escape.  Time is counted in sleeps
\* of the loop.

\* check_interval_hours, in sleeps of the loop.
CheckIntervals == {2, 3}

\* How long a run of the job can take.
Durations == 0..MaxDuration

\* A faulty timetable at a fixed rate: the run after this one is due one
\* interval after the time this one was due.
NextRunFixedRate(finished, scheduled, interval) == scheduled + interval

\* The job is rescheduled when it returns, one interval after that moment.
NextRun(finished, scheduled, interval) == finished + interval

\* A faulty loop that an exception of the job ends.
AfterJobCrash(raised) == IF raised THEN "crashed" ELSE "sleep"

\* lines 392-399: a job that returns is followed by time.sleep(60); an
\* exception is caught by 'except Exception', logged, and the loop goes on.
AfterJob(raised) == IF raised THEN "handler" ELSE "sleep"

InitLoop ==
    /\ InitCommon
    /\ LoopNotStarted
    /\ Configured(DefaultConfiguration)
    /\ fetcher = LiveFetcher

\* lines 385-388: schedule.every(check_interval).hours.do(...): the first run
\* is due one interval from now.
StartMonitoring ==
    /\ loop_pc = "not_started"
    /\ \E interval \in CheckIntervals :
        /\ check_interval' = interval
        /\ next_run' = clock + interval
    /\ loop_pc' = "pending"
    /\ UNCHANGED <<clock, last_run, in_flight, job_start, overran, loop_errors>>
    /\ UNCHANGED cycle_vars
    /\ UNCHANGED unit_vars

\* line 393: schedule.run_pending() with the job due: the job is called.
RunPendingDue ==
    /\ loop_pc = "pending"
    /\ clock >= next_run
    /\ loop_pc' = "job"
    /\ in_flight' = in_flight + 1
    /\ job_start' = clock
    /\ UNCHANGED <<clock, check_interval, next_run, last_run, overran, loop_errors>>
    /\ UNCHANGED cycle_vars
    /\ UNCHANGED unit_vars

\* line 393: schedule.run_pending() with nothing due.
RunPendingNotDue ==
    /\ loop_pc = "pending"
    /\ clock < next_run
    /\ loop_pc' = "sleep"
    /\ UNCHANGED <<clock, check_interval, next_run, last_run, in_flight, job_start, overran,
                   loop_errors>>
    /\ UNCHANGED cycle_vars
    /\ UNCHANGED unit_vars

\* check_regulatory_updates returns; the job records last_run and is
\* rescheduled.
JobReturns ==
    /\ loop_pc = "job"
    /\ \E d \in Durations :
        /\ clock + d <= MaxClock
        /\ clock' = clock + d
    /\ last_run' = clock'
    /\ next_run' = NextRun(clock', next_run, check_interval)
    /\ overran' = (clock' >= next_run + check_interval)
    /\ in_flight' = in_flight - 1
    /\ loop_pc' = AfterJob(FALSE)
    /\ UNCHANGED <<check_interval, job_start, loop_errors>>
    /\ UNCHANGED cycle_vars
    /\ UNCHANGED unit_vars

\* An exception escapes check_regulatory_updates and run_pending; the job is
\* not rescheduled and stays due.
JobRaises ==
    /\ loop_pc = "job"
    /\ \E d \in Durations :
        /\ clock + d <= MaxClock
        /\ clock' = clock + d
    /\ overran' = (clock' >= next_run + check_interval)
    /\ in_flight' = in_flight - 1
    /\ loop_errors' = loop_errors + 1
    /\ loop_pc' = AfterJob(TRUE)
    /\ UNCHANGED <<check_interval, next_run, last_run, job_start>>
    /\ UNCHANGED cycle_vars
    /\ UNCHANGED unit_vars

\* line 394: time.sleep(60).
Sleep ==
    /\ loop_pc = "sleep"
    /\ clock < MaxClock
    /\ clock' = clock + 1
    /\ loop_pc' = "pending"
    /\ UNCHANGED <<check_interval, next_run, last_run, in_flight, job_start, overran,
                   loop_errors>>
    /\ UNCHANGED cycle_vars
    /\ UNCHANGED unit_vars

\* lines 397-399: the handler has logged the error; time.sleep(60).
SleepAfterError ==
    /\ loop_pc = "handler"
    /\ clock < MaxClock
    /\ clock' = clock + 1
    /\ loop_pc' = "pending"
    /\ UNCHANGED <<check_interval, next_run, last_run, in_flight, job_start, overran,
                   loop_errors>>
    /\ UNCHANGED cycle_vars
    /\ UNCHANGED unit_vars

\* lines 395-396: KeyboardInterrupt; a job in progress is abandoned.
Interrupt ==
    /\ loop_pc \in {"pending", "job", "sleep", "handler"}
    /\ loop_pc' = "interrupted"
    /\ in_flight' = 0
    /\ UNCHANGED <<clock, check_interval, next_run, last_run, job_start, overran,
                   loop_errors>>
    /\ UNCHANGED cycle_vars
    /\ UNCHANGED unit_vars

LoopStep ==
    \/ StartMonitoring
    \/ RunPendingDue
    \/ RunPendingNotDue
    \/ JobReturns
    \/ JobRaises
    \/ Sleep
    \/ SleepAfterError

NextLoop == LoopStep \/ Interrupt

\* The loop's thread keeps running while it has something to do.
SpecLoop == InitLoop /\ [][NextLoop]_vars /\ WF_vars(LoopStep)

----------------------------------------------------------------------------
(* Properties *)

HasEvent(e) == \E i \in 1..Len(events) : events[i] = e

EventCount(e) == Cardinality({i \in 1..Len(events) : events[i] = e})

IsPrefix(p, q) == Len(p) <= Len(q) /\ \A i \in 1..Len(p) : p[i] = q[i]

NoDuplicateTitle(records) ==
    \A i, j \in 1..Len(records) : records[i].title = records[j].title => i = j

ClientSet(registry) == {registry[i] : i \in 1..Len(registry)}

Records(log) == {<<s, i>> \in RegulationSources \X (1..(2 * MaxBatch * MaxCycles)) : i <= Len(log[s])}

\* C1 (as stated): when check_regulatory_updates runs twice in succession and
\* the fetcher returns the same batch both times, the second run appends no
\* record and has_new_updates is False.
C1_ReplayAppendsNothing ==
    replay => (added = 0 /\ ~has_new_updates)

\* C1 (amended): when the second run starts from the log the first run ended
\* with (the first run's write succeeded or it had nothing to write, and the
\* second run's read succeeded) and the fetcher returns the same batch, the
\* second run appends no record and has_new_updates is False.
C1_ReplayOnCarriedLogAppendsNothing ==
    (replay /\ resumed) => (added = 0 /\ ~has_new_updates)

C1_Witness ==
    /\ pc = "done"
    /\ replay
    /\ resumed
    /\ skipped >= 2
    /\ added = 0

\* C2: no source of the update log, persisted or in memory, ever holds two
\* records with the same title; a title fetched twice in one batch is
\* appended once.
C2_AtMostOncePerTitle ==
    \A s \in RegulationSources :
        /\ NoDuplicateTitle(updates_file.data[s])
        /\ NoDuplicateTitle(existing_updates[s])
        /\ NoDuplicateTitle(updates[s])

C2_Witness ==
    /\ pc = "done"
    /\ cycles = 1
    /\ skipped > 0
    /\ added = 1
    /\ updates_file.ok
    /\ updates_file.data = existing_updates

\* C3: every record of the persisted update log is still in it, at its place,
\* after any step of any cycle: the log of each source only grows at its end.
C3_LogAppendOnly ==
    [][\A s \in RegulationSources : IsPrefix(updates_file.data[s], updates_file'.data[s])]_vars

\* C4: a step that changes the persisted update log leaves the full merged
\* log, readable; otherwise the file is exactly as it was.
C4_AtomicPersistence ==
    [][updates_file' = updates_file
       \/ (updates_file'.ok /\ updates_file'.data = existing_updates)]_vars

\* C5: in a cycle whose write of the update log failed, _check_and_send_alerts
\* is not entered, no delivery is attempted and the ledger is not written.
C5_NoEvaluationAfterFailedSave ==
    HasEvent("save_failed") =>
        /\ pc \in {"done"}
        /\ ~HasEvent("evaluate")
        /\ ~HasEvent("reload_failed")
        /\ ~HasEvent("dispatch")
        /\ ~HasEvent("ledger")
        /\ ~HasEvent("ledger_failed")
        /\ attempted = {}

C5_Witness ==
    /\ pc = "done"
    /\ HasEvent("save_failed")
    /\ added >= 2

\* C6: the evaluator is entered, an alert dispatched or the ledger written
\* only in a cycle whose fetch succeeded and whose merge appended a record.
C6_AlertOnlyAfterAddingMerge ==
    (\/ pc \in {"alerts", "send"}
     \/ HasEvent("evaluate")
     \/ HasEvent("reload_failed")
     \/ HasEvent("dispatch")
     \/ HasEvent("ledger")
     \/ HasEvent("ledger_failed")
     \/ attempted # {})
        => (HasEvent("merge") /\ added >= 1 /\ has_new_updates)

\* An empty merge while the window already holds a threshold's worth of
\* records: the cycle ends without evaluation.
C6_Witness ==
    /\ pc = "done"
    /\ HasEvent("merge")
    /\ added = 0
    /\ skipped > 0
    /\ updates_file.ok
    /\ RecentUpdateCount(updates_file.data, now) >= 2
    /\ config_alert_threshold = <<2>>
    /\ ~HasEvent("evaluate")
    /\ events[Len(events)] = "merge"

\* C7: when the evaluator has run, the alert was dispatched exactly when the
\* count is at least the configured threshold (3 when none is configured);
\* the AlertEvent it then creates carries that count, and so does the ledger
\* once written.
C7_FiresIffThresholdReached ==
    LET threshold == IF config_alert_threshold = NoValue THEN 3
                     ELSE config_alert_threshold[1]
    IN  HasEvent("evaluate") =>
            /\ HasEvent("dispatch") <=> recent_update_count >= threshold
            /\ (pc = "send") => HasEvent("dispatch")
            /\ (pc = "done" /\ HasEvent("dispatch")) =>
                    /\ HasEvent("ledger") \/ HasEvent("ledger_failed")
                    /\ \E e \in client_alerts :
                            e.id = AlertId(now) /\ e.update_count = recent_update_count
            /\ HasEvent("ledger") =>
                    \E e \in alerts_file.data :
                        e.id = AlertId(now) /\ e.update_count = recent_update_count
            /\ ~HasEvent("dispatch") =>
                    ~HasEvent("ledger") /\ ~HasEvent("ledger_failed")

C7_Witness ==
    /\ pc = "done"
    /\ config_alert_threshold = NoValue
    /\ recent_update_count = 3
    /\ HasEvent("ledger")

\* C8: the count the evaluator computes is the number of records, over all
\* sources of the persisted log, discovered in [now - 7, now], both ends
\* included; the nominal date of a record plays no part.
C8_CountsDiscoveriesInWindow ==
    HasEvent("evaluate") =>
        /\ updates = updates_file.data
        /\ recent_update_count =
              Cardinality({r \in Records(updates) :
                  /\ updates[r[1]][r[2]].discovered_date >= now - WindowDays
                  /\ updates[r[1]][r[2]].discovered_date <= now})

\* The newest record of a source was discovered 8 days ago and is left out.
C8_Witness ==
    /\ HasEvent("evaluate")
    /\ recent_update_count = 1
    /\ \E s \in RegulationSources :
        /\ updates[s] # <<>>
        /\ updates[s][Len(updates[s])].discovered_date = now - (WindowDays + 1)

C10_EndToEnd ==
    (/\ pc = "done"
     /\ cycles = 1
     /\ config_alert_threshold = <<2>>
     /\ \E s \in RegulationSources :
            /\ Len(fetcher.outcome[s].rows) = 2
            /\ fetcher.outcome[s].rows[1] # fetcher.outcome[s].rows[2]
            /\ \A o \in RegulationSources \ {s} : fetcher.outcome[o].rows = <<>>
     /\ \A i \in 1..Len(events) :
            events[i] \in {"load", "fetch", "merge", "save", "evaluate", "dispatch", "ledger"})
        => /\ added = 2
           /\ recent_update_count = 2
           /\ events = <<"load", "fetch", "merge", "save", "evaluate", "dispatch", "ledger">>
           /\ attempted = ClientSet(RegisteredClients)
           /\ alerts_file.ok
           /\ Cardinality(alerts_file.data) = 1
           /\ \A e \in alerts_file.data : e.update_count = 2 /\ e.updates_sent

C10_Witness ==
    /\ pc = "done"
    /\ cycles = 1
    /\ config_alert_threshold = <<2>>
    /\ fetcher.outcome["eur-lex"].rows = <<"Reg A", "Reg B">>
    /\ fetcher.outcome["gazette"].rows = <<>>
    /\ events = <<"load", "fetch", "merge", "save", "evaluate", "dispatch", "ledger">>
    /\ attempted = ClientSet(RegisteredClients)
    /\ failed = {}

\* C11: a delivery that raises does not end the dispatch: no registered
\* client is dropped from the loop, every client has been attempted when the
\* cycle is done, the failures are among the attempts and are logged, and
\* control is back in _check_and_send_alerts, which goes on to the ledger.
C11_DeliveryFailureDoesNotAbort ==
    /\ failed \subseteq attempted
    /\ (pc = "send") => (attempted \cup ClientSet(pending) = ClientSet(clients))
    /\ (pc = "done" /\ HasEvent("dispatch")) =>
            /\ attempted = ClientSet(clients)
            /\ HasEvent("ledger") \/ HasEvent("ledger_failed")

\* The delivery to the first client raised and the second was attempted.
C11_Witness ==
    /\ pc = "done"
    /\ clients = RegisteredClients
    /\ failed = {RegisteredClients[1]}
    /\ attempted = ClientSet(RegisteredClients)

\* C12: when an alert fired and some or all deliveries failed, the ledger
\* write is still made and the AlertEvent, in memory and in the file once
\* written, has updates_sent true.
C12_LedgerWrittenDespiteFailedDelivery ==
    (pc = "done" /\ HasEvent("dispatch") /\ failed # {}) =>
        /\ HasEvent("ledger") \/ HasEvent("ledger_failed")
        /\ \E e \in client_alerts : e.id = AlertId(now) /\ e.updates_sent
        /\ HasEvent("ledger") =>
                (alerts_file.ok /\ \E e \in alerts_file.data : e.id = AlertId(now) /\ e.updates_sent)

\* Every delivery failed and the ledger was written.
C12_Witness ==
    /\ pc = "done"
    /\ failed = ClientSet(RegisteredClients)
    /\ HasEvent("ledger")
    /\ \E e \in alerts_file.data : e.id = AlertId(now) /\ e.updates_sent

\* C13: every AlertEvent of the persisted ledger is still in it, unchanged,
\* after any step of any cycle.
C13_LedgerAppendOnly ==
    [][alerts_file.data \subseteq alerts_file'.data]_vars

\* C14: a completed cycle that dispatched an alert has left an AlertEvent for
\* that firing in the persisted ledger.
C14_FiredAlertIsRecorded ==
    (pc = "done" /\ HasEvent("dispatch")) =>
        (alerts_file.ok /\ \E e \in alerts_file.data :
                                e.id = AlertId(now) /\ e.update_count = recent_update_count)

\* C15: an exception of a cycle does not end the loop: the loop is never left
\* by an error, and after the handler has logged one the job is run again
\* (unless the user interrupts; the model's clock ends at MaxClock).
C15_LoopSurvivesCycleFailure ==
    /\ [](loop_pc # "crashed")
    /\ [](loop_pc = "handler"
            => <>(loop_pc = "job" \/ loop_pc = "interrupted" \/ clock = MaxClock))

\* A job is running after two earlier runs let an exception escape.
C15_Witness ==
    /\ loop_pc = "job"
    /\ loop_errors = 2
    /\ in_flight = 1

\* C16: at most one call of the job is in progress; a run never starts less
\* than one interval after the last completed run, and after a run returns
\* nothing is due, however many ticks came due while it ran.
C16_NoReentryNoCatchUp ==
    /\ in_flight <= 1
    /\ (loop_pc = "job") <=> (in_flight = 1)
    /\ (loop_pc = "job") => (job_start >= last_run + check_interval)
    /\ (loop_pc = "sleep") => (next_run > clock)

\* The run before this one was still running when its next tick came due;
\* this run started one whole interval after that run returned.
C16_Witness ==
    /\ loop_pc = "job"
    /\ overran
    /\ last_run > 0
    /\ job_start = last_run + check_interval

DiscoveryOrdered(records) ==
    \A i, j \in 1..Len(records) :
        i < j => records[i].discovered_date <= records[j].discovered_date

\* C17: the records of a source, in the file and in memory, are in the order
\* of their discovery, and a merge leaves the records it loaded where they
\* were: the loaded list is the beginning of the merged list.
C17_OrderPreserved ==
    /\ \A s \in RegulationSources :
        /\ DiscoveryOrdered(updates_file.data[s])
        /\ DiscoveryOrdered(existing_updates[s])
    /\ (HasEvent("load") /\ ~HasEvent("save") /\ ~HasEvent("save_failed")) =>
            \A s \in RegulationSources :
                IsPrefix(updates_file.data[s], existing_updates[s])

\* A merge has put a record of a later day after the records it loaded.
C17_Witness ==
    /\ pc = "save"
    /\ HasEvent("load")
    /\ \E s \in RegulationSources :
        /\ updates_file.data[s] # <<>>
        /\ Len(existing_updates[s]) > Len(updates_file.data[s])
        /\ existing_updates[s][Len(existing_updates[s])].discovered_date
                > existing_updates[s][1].discovered_date

\* C18: a merge is followed by the write of the log exactly when it appended
\* a record; a successful write leaves the whole merged log in the file; the
\* persisted log and the ledger change only in a cycle whose merge appended.
C18_WrittenIffAppended ==
    [][/\ (pc = "idle" /\ pc' # "idle") => (pc' = "save" <=> added' >= 1)
       /\ (pc = "save") =>
            /\ events'[Len(events')] \in {"save", "save_failed"}
            /\ events'[Len(events')] = "save" =>
                    updates_file' = ReadableFile(existing_updates)
       /\ (updates_file' # updates_file) => (pc = "save" /\ added >= 1)
       /\ (alerts_file' # alerts_file) => (added >= 1 /\ HasEvent("save"))]_vars

\* The second cycle appended a record and the file holds the whole log.
C18_Witness ==
    /\ cycles = 2
    /\ added = 1
    /\ skipped = 1
    /\ HasEvent("save")
    /\ updates_file = ReadableFile(existing_updates)
    /\ \E s \in RegulationSources : Len(updates_file.data[s]) = 2

----------------------------------------------------------------------------
(* The composition of the notification on its own *)

\* Titles of the records of a log long enough to be cut.
NoticeTitles == {"Reg A", "Reg B", "Reg C", "Reg D"}

NoticeRecords ==
    {[title |-> t, date |-> 0, discovered_date |-> d] : t \in NoticeTitles, d \in 0..MaxStamp}

\* The lists a source of the log can hold: no title twice, in the order of
\* discovery.
NoticeLogs(n) ==
    {q \in SeqsUpTo(NoticeRecords, n) : NoDuplicateTitle(q) /\ DiscoveryOrdered(q)}

\* _send_alerts_to_clients is called with the log read from the file.
EnterSendAlerts ==
    /\ pc = "idle"
    /\ \E s \in RegulationSources, long \in NoticeLogs(MaxLog), short \in NoticeLogs(1) :
        updates' = [x \in RegulationSources |-> IF x = s THEN long ELSE short]
    /\ pc' = "compose"
    /\ UNCHANGED <<now, cycles, config_alert_threshold, config_ojDate, updates_file,
                   alerts_file, existing_updates, has_new_updates, client_alerts,
                   clients, recent_update_count, pending, attempted, failed, events, added,
                   skipped, replay, prev_fetched, carried, resumed, armed, faults, fetcher,
                   html_body, sources_changed>>
    /\ UNCHANGED loop_vars
    /\ UNCHANGED unit_vars

\* lines 255-272: the sections of the body are built.
ComposeNotification ==
    /\ pc = "compose"
    /\ html_body' = HtmlBody(updates)
    /\ pc' = "composed"
    /\ UNCHANGED <<now, cycles, config_alert_threshold, config_ojDate, updates_file,
                   alerts_file, existing_updates, has_new_updates, updates, client_alerts,
                   clients, recent_update_count, pending, attempted, failed, events, added,
                   skipped, replay, prev_fetched, carried, resumed, armed, faults, fetcher,
                   sources_changed>>
    /\ UNCHANGED loop_vars
    /\ UNCHANGED unit_vars

NextNotify == EnterSendAlerts \/ ComposeNotification

SpecNotify == InitLoop /\ [][NextNotify]_vars

Position(records, r) == CHOOSE k \in 1..Len(records) : records[k] = r

\* r comes before q in the notification: discovered later, or at the same
\* time and inserted earlier (at place i and k of the list).
Before(r, i, q, k) ==
    \/ r.discovered_date > q.discovered_date
    \/ r.discovered_date = q.discovered_date /\ i < k

\* C19: the section of a source lists min(3, n) of its n records, the ones
\* discovered last, latest first; records discovered at the same time come in
\* the order of their insertion, and that order also decides which of them
\* are left out.
C19_ThreeMostRecentlyDiscovered ==
    (pc = "composed") =>
        \A s \in RegulationSources :
            LET log == updates[s]
                shown == html_body[s]
                Shown(k) == \E i \in 1..Len(shown) : shown[i] = log[k]
            IN  /\ Len(shown) = Min(3, Len(log))
                /\ \A i \in 1..Len(shown) : \E k \in 1..Len(log) : log[k] = shown[i]
                /\ \A i, j \in 1..Len(shown) :
                        i < j => Before(shown[i], Position(log, shown[i]),
                                        shown[j], Position(log, shown[j]))
                /\ \A k \in 1..Len(log), i \in 1..Len(shown) :
                        ~Shown(k) => Before(shown[i], Position(log, shown[i]), log[k], k)

\* Four records, the last three discovered at the same time: they are listed
\* in the order of their insertion.
C19_Witness ==
    /\ pc = "composed"
    /\ \E s \in RegulationSources :
        /\ Len(updates[s]) = 4
        /\ updates[s][1].discovered_date < updates[s][2].discovered_date
        /\ updates[s][2].discovered_date = updates[s][4].discovered_date
        /\ html_body[s] = <<updates[s][2], updates[s][3], updates[s][4]>>

----------------------------------------------------------------------------
(* EURegulatoryScraper.check_for_updates on its own, source by source *)

\* A faulty loop without the try/except around the scrape of one source.
AfterScrapePropagate(raised) == IF raised THEN "escaped" ELSE "loop"

\* lines 312-318: an exception of one source is logged and the loop goes on.
AfterScrape(raised) == "loop"

\* lines 313-318: the entry of one key.
SourceEntry(outcome, ojdate) ==
    IF outcome.raised THEN <<>>
    ELSE [i \in 1..Len(outcome.rows) |-> ScrapedRecord(outcome.rows[i], ojdate)]

\* line 310: all_updates = {}
EnterCheckForUpdates ==
    /\ pc = "idle"
    /\ fetch_pc = "idle"
    /\ fetch_pc' = "loop"
    /\ UNCHANGED <<all_updates, fetched_keys, scraped>>
    /\ UNCHANGED <<cycle_vars, loop_vars, date_vars, analyzer_vars, ledger_vars, request_vars, web_vars>>

\* lines 311-318: one iteration of the loop over regulation_sources.
ScrapeSource ==
    /\ fetch_pc = "loop"
    /\ \E key \in RegulationSources \ fetched_keys, outcome \in ScrapeOutcomes :
        /\ scraped' = [scraped EXCEPT ![key] = outcome]
        /\ all_updates' = [all_updates EXCEPT
                              ![key] = SourceEntry(outcome, OjDate(config_ojDate, now))]
        /\ fetched_keys' = fetched_keys \cup {key}
        /\ fetch_pc' = AfterScrape(outcome.raised)
    /\ UNCHANGED <<cycle_vars, loop_vars, date_vars, analyzer_vars, ledger_vars, request_vars, web_vars>>

\* line 319: return all_updates
ReturnAllUpdates ==
    /\ fetch_pc = "loop"
    /\ fetched_keys = RegulationSources
    /\ fetch_pc' = "returned"
    /\ UNCHANGED <<all_updates, fetched_keys, scraped>>
    /\ UNCHANGED <<cycle_vars, loop_vars, date_vars, analyzer_vars, ledger_vars, request_vars, web_vars>>

\* monitoring_system.py, lines 131-150: the caller merges what was returned.
MergeFetched ==
    /\ fetch_pc = "returned"
    /\ existing_updates' = Merge(existing_updates, all_updates, now)
    /\ fetch_pc' = "merged"
    /\ UNCHANGED <<all_updates, fetched_keys, scraped>>
    /\ UNCHANGED <<now, cycles, pc, config_alert_threshold, config_ojDate, updates_file,
                   alerts_file, has_new_updates, updates, client_alerts,
                   clients, recent_update_count, pending, attempted, failed, events, added,
                   skipped, replay, prev_fetched, carried, resumed, armed, faults, fetcher,
                   html_body, sources_changed>>
    /\ UNCHANGED <<loop_vars, date_vars, analyzer_vars, ledger_vars, request_vars, web_vars>>

NextFetch == EnterCheckForUpdates \/ ScrapeSource \/ ReturnAllUpdates \/ MergeFetched

SpecFetch == InitLoop /\ [][NextFetch]_vars

RaisedSources == {s \in fetched_keys : scraped[s].raised}

TitlesOf(records) == {records[i].title : i \in 1..Len(records)}

RowsOf(rows) == {rows[i] : i \in 1..Len(rows)}

\* C21: a failure to fetch one source is contained to that source: the
\* exception never leaves check_for_updates, the failing source yields the
\* empty sequence, what is returned is one entry per source, and the records
\* of every other source are returned and merged into the log.
C21_FetchFailureContained ==
    /\ fetch_pc # "escaped"
    /\ \A s \in RaisedSources : all_updates[s] = <<>>
    /\ fetch_pc \in {"returned", "merged"} =>
          /\ fetched_keys = RegulationSources
          /\ all_updates = check_for_updates(scraped, OjDate(config_ojDate, now))
    /\ fetch_pc = "merged" =>
          \A s \in RegulationSources :
              TitlesOf(existing_updates[s]) =
                  IF scraped[s].raised THEN {} ELSE RowsOf(scraped[s].rows)

C21_Witness ==
    /\ fetch_pc = "merged"
    /\ RaisedSources # {}
    /\ \E s \in RegulationSources \ RaisedSources : Len(existing_updates[s]) >= 2

----------------------------------------------------------------------------
(* The date normaliser: EURegulatoryScraper._format_ojdate *)

DigitChars == <<"0", "1", "2", "3", "4", "5", "6", "7", "8", "9">>

IsDigit(c) == \E k \in 1..10 : DigitChars[k] = c

DigitValue(c) == (CHOOSE k \in 1..10 : DigitChars[k] = c) - 1

AllDigits(s) == \A i \in 1..Len(s) : IsDigit(s[i])

\* int(s) of a string of digits
RECURSIVE ToInt(_)
ToInt(s) ==
    IF s = <<>> THEN 0
    ELSE ToInt(SubSeq(s, 1, Len(s) - 1)) * 10 + DigitValue(s[Len(s)])

\* str(n)
RECURSIVE ToStr(_)
ToStr(n) ==
    IF n < 10 THEN <<DigitChars[n + 1]>>
    ELSE Append(ToStr(n \div 10), DigitChars[(n % 10) + 1])

\* f"{n:0{width}d}" and strftime's %d, %m, %Y: zeros in front up to the width
RECURSIVE ZeroPad(_, _)
ZeroPad(s, width) == IF Len(s) >= width THEN s ELSE ZeroPad(<<"0">> \o s, width)

\* str.strip()
RECURSIVE Strip(_)
Strip(s) ==
    IF s = <<>> THEN s
    ELSE IF Head(s) = " " THEN Strip(Tail(s))
    ELSE IF s[Len(s)] = " " THEN Strip(SubSeq(s, 1, Len(s) - 1))
    ELSE s

Dashes(s) == {i \in 1..Len(s) : s[i] = "-"}

\* The three groups of a string with exactly two '-'.
Groups(s) ==
    LET i == CHOOSE k \in Dashes(s) : \A j \in Dashes(s) : k <= j
        j == CHOOSE k \in Dashes(s) : \A l \in Dashes(s) : l <= k
    IN  <<SubSeq(s, 1, i - 1), SubSeq(s, i + 1, j - 1), SubSeq(s, j + 1, Len(s))>>

\* re.match of three groups of digits joined by '-', the widths of each group
\* given as sets.
MatchGroups(s, w1, w2, w3) ==
    /\ Cardinality(Dashes(s)) = 2
    /\ LET g == Groups(s)
       IN  /\ AllDigits(g[1]) /\ Len(g[1]) \in w1
           /\ AllDigits(g[2]) /\ Len(g[2]) \in w2
           /\ AllDigits(g[3]) /\ Len(g[3]) \in w3

\* A faulty formatter that keeps the order of the groups of YYYY-MM-DD.
CompactYearFirst(da, mo, y) == y \o ZeroPad(ToStr(ToInt(mo)), 2) \o ZeroPad(ToStr(ToInt(da)), 2)

\* lines 169 and 174: f"{int(da):02d}{int(mo):02d}{y}"
Compact(da, mo, y) == ZeroPad(ToStr(ToInt(da)), 2) \o ZeroPad(ToStr(ToInt(mo)), 2) \o y

Returned(value) == [raised |-> FALSE, value |-> value]

Raised == [raised |-> TRUE, value |-> <<>>]

\* lines 161-179
FormatOjdate(input) ==
    IF input.kind = "date"
    THEN Returned(ZeroPad(ToStr(input.value[1]), 2) \o ZeroPad(ToStr(input.value[2]), 2)
                     \o ZeroPad(ToStr(input.value[3]), 4))
    ELSE IF input.kind = "str"
    THEN LET s == Strip(input.text)
         IN  IF MatchGroups(s, {4}, {1, 2}, {1, 2})
             THEN Returned(Compact(Groups(s)[3], Groups(s)[2], Groups(s)[1]))
             ELSE IF MatchGroups(s, {1, 2}, {1, 2}, {4})
             THEN Returned(Compact(Groups(s)[1], Groups(s)[2], Groups(s)[3]))
             ELSE IF Len(s) = 8 /\ AllDigits(s)
             THEN Returned(s)
             ELSE Raised
    ELSE Raised

\* The strings tried: up to three fields, with a separator or none between
\* them and a blank or none around them.
DateFields ==
    {<<"9">>, <<"0", "9">>, <<"1", "0">>, <<"2", "5">>, <<"2", "0", "2", "5">>, <<"a", "b">>}

FieldSeparators == {<<"-">>, <<"/">>, <<>>}

Blanks == {<<>>, <<" ">>}

DateTexts ==
    {b1 \o f1 \o s1 \o f2 \o s2 \o f3 \o b2 :
        b1 \in Blanks, f1 \in DateFields, s1 \in FieldSeparators, f2 \in DateFields,
        s2 \in FieldSeparators, f3 \in DateFields, b2 \in Blanks}

CalendarDates == {DateObject(10, 9, 2025), DateObject(1, 12, 2025), DateObject(9, 9, 2025)}

DateInputs == {DateString(t) : t \in DateTexts} \cup CalendarDates

EnterFormatOjdate ==
    /\ pc = "idle"
    /\ date_pc = "idle"
    /\ scrape_pc = "idle"
    /\ \E input \in DateInputs : date_input' = input
    /\ date_pc' = "called"
    /\ UNCHANGED <<ojdate_result, scrape_pc, regulation_key, scraper_ojDate, scraper_today, ojDate_str>>
    /\ UNCHANGED <<cycle_vars, loop_vars, fetch_vars, analyzer_vars, ledger_vars, request_vars, web_vars>>

FormatOjdateReturns ==
    /\ date_pc = "called"
    /\ ojdate_result' = FormatOjdate(date_input)
    /\ date_pc' = "formatted"
    /\ UNCHANGED <<date_input, scrape_pc, regulation_key, scraper_ojDate, scraper_today, ojDate_str>>
    /\ UNCHANGED <<cycle_vars, loop_vars, fetch_vars, analyzer_vars, ledger_vars, request_vars, web_vars>>

----------------------------------------------------------------------------
(* The query date of scrape_regulation_updates *)

\* lines 252-255: the key is split at the first '::'.
Separators(key) == {i \in 1..(Len(key) - 1) : key[i] = ":" /\ key[i + 1] = ":"}

DateOverride(key) ==
    IF Separators(key) = {} THEN NoDate
    ELSE DateString(SubSeq(key,
            (CHOOSE i \in Separators(key) : \A j \in Separators(key) : i <= j) + 2, Len(key)))

\* Truth value of None, of a string and of a date object.
Truthy(input) == input.kind = "date" \/ (input.kind = "str" /\ input.text # <<>>)

\* strftime("%d%m%Y")
Strftime(d) == FormatOjdate(DateObject(d[1], d[2], d[3])).value

\* A faulty choice that looks at the configured date before the override.
ChooseOjDateConfigFirst(date_override, configured, tod) ==
    IF Truthy(configured) /\ ~FormatOjdate(configured).raised
    THEN Returned(FormatOjdate(configured).value)
    ELSE IF Truthy(date_override) /\ ~FormatOjdate(date_override).raised
    THEN Returned(FormatOjdate(date_override).value)
    ELSE Returned(Strftime(tod))

\* lines 258-273: ojDate_str, None being the empty tuple until a date is taken.
ChooseOjDate(date_override, configured, tod) ==
    LET first == IF Truthy(date_override) /\ ~FormatOjdate(date_override).raised
                 THEN <<FormatOjdate(date_override).value>> ELSE <<>>
        second == IF first = <<>> /\ Truthy(configured) /\ ~FormatOjdate(configured).raised
                  THEN <<FormatOjdate(configured).value>> ELSE first
    IN  Returned(IF second = <<>> THEN Strftime(tod) ELSE second[1])

SourceKey == <<"e", "u", "r">>

OverrideTexts ==
    {<<"2", "0", "2", "5", "-", "0", "9", "-", "1", "0">>,
     <<"1", "0", "-", "0", "9", "-", "2", "0", "2", "5">>,
     <<"1", "0", "0", "9", "2", "0", "2", "5">>,
     <<"2", "0", "2", "5", "/", "0", "9", "/", "1", "0">>,
     <<>>,
     <<"1", "0", "-", "9", "-", "2", "5">>,
     <<"5", "-", "9", "-", "2", "0", "2", "5">>}

RegulationKeys == {SourceKey} \cup {SourceKey \o <<":", ":">> \o t : t \in OverrideTexts}

ConfiguredDates ==
    {NoDate, DateObject(11, 9, 2025)} \cup {DateString(t) : t \in
        {<<"2", "0", "2", "5", "-", "0", "9", "-", "1", "1">>, <<"1", "1", "/", "0", "9", "/", "2", "0", "2", "5">>, <<>>}}

Todays == {<<12, 9, 2025>>, <<1, 1, 2026>>}

EnterScrapeRegulationUpdates ==
    /\ pc = "idle"
    /\ date_pc = "idle"
    /\ scrape_pc = "idle"
    /\ \E key \in RegulationKeys, configured \in ConfiguredDates, tod \in Todays :
        /\ regulation_key' = key
        /\ scraper_ojDate' = configured
        /\ scraper_today' = tod
    /\ scrape_pc' = "called"
    /\ UNCHANGED <<date_pc, date_input, ojdate_result, ojDate_str>>
    /\ UNCHANGED <<cycle_vars, loop_vars, fetch_vars, analyzer_vars, ledger_vars, request_vars, web_vars>>

\* lines 250-282: the date is chosen, the page of that date is scraped (an
\* error of the request is logged inside) and the rows are returned.
ScrapeRegulationUpdates ==
    /\ scrape_pc = "called"
    /\ LET chosen == ChooseOjDate(DateOverride(regulation_key), scraper_ojDate, scraper_today)
       IN  /\ ojDate_str' = chosen.value
           /\ scrape_pc' = IF chosen.raised THEN "raised" ELSE "returned"
    /\ UNCHANGED <<date_pc, date_input, ojdate_result, regulation_key, scraper_ojDate, scraper_today>>
    /\ UNCHANGED <<cycle_vars, loop_vars, fetch_vars, analyzer_vars, ledger_vars, request_vars, web_vars>>

NextDate ==
    \/ EnterFormatOjdate
    \/ FormatOjdateReturns
    \/ EnterScrapeRegulationUpdates
    \/ ScrapeRegulationUpdates

SpecDate == InitLoop /\ [][NextDate]_vars

\* The positions of a string in one of the three forms, stated character by
\* character.
IsYMD(s) ==
    /\ Len(s) = 10 /\ s[5] = "-" /\ s[8] = "-"
    /\ \A i \in {1, 2, 3, 4, 6, 7, 9, 10} : IsDigit(s[i])

IsDMY(s) ==
    /\ Len(s) = 10 /\ s[3] = "-" /\ s[6] = "-"
    /\ \A i \in {1, 2, 4, 5, 7, 8, 9, 10} : IsDigit(s[i])

IsCompact(s) == Len(s) = 8 /\ \A i \in 1..8 : IsDigit(s[i])

\* The day, month and year a compact key reads as.
KeyDate(key) == <<ToInt(SubSeq(key, 1, 2)), ToInt(SubSeq(key, 3, 4)), ToInt(SubSeq(key, 5, 8))>>

\* C22: a calendar date, and every string of the form YYYY-MM-DD, DD-MM-YYYY
\* or DDMMYYYY, is mapped to the compact key DDMMYYYY of the same date; a
\* string already in the compact form is returned unchanged, and formatting
\* the result again gives the result.
C22_NormalisedToCompactKey ==
    date_pc = "formatted" =>
        LET s == date_input.text
            r == ojdate_result
        IN  /\ date_input.kind = "date" =>
                  ~r.raised /\ IsCompact(r.value) /\ KeyDate(r.value) = date_input.value
            /\ (date_input.kind = "str" /\ IsYMD(s)) =>
                  /\ ~r.raised
                  /\ r.value = SubSeq(s, 9, 10) \o SubSeq(s, 6, 7) \o SubSeq(s, 1, 4)
            /\ (date_input.kind = "str" /\ IsDMY(s)) =>
                  /\ ~r.raised
                  /\ r.value = SubSeq(s, 1, 2) \o SubSeq(s, 4, 5) \o SubSeq(s, 7, 10)
            /\ (date_input.kind = "str" /\ IsCompact(s)) => ~r.raised /\ r.value = s
            /\ ~r.raised => FormatOjdate(DateString(r.value)) = r

C22_Witness ==
    /\ date_pc = "formatted"
    /\ date_input = DateString(<<"2", "0", "2", "5", "-", "0", "9", "-", "1", "0">>)
    /\ ojdate_result = Returned(<<"1", "0", "0", "9", "2", "0", "2", "5">>)

\* C23: every string that is not exactly in one of the three fixed-width
\* forms is rejected with the invalid-format error, and nothing is returned
\* for it.
C23_EveryOtherStringRejected ==
    (date_pc = "formatted" /\ date_input.kind = "str") =>
        (~(IsYMD(date_input.text) \/ IsDMY(date_input.text) \/ IsCompact(date_input.text))
            => ojdate_result = Raised)

\* C26: the date of the query is the override after '::' when it is one the
\* normaliser accepts, else the configured ojDate when it is one the
\* normaliser accepts, else today; an override or a configured date that is
\* rejected is passed over, and the call returns in every case.
C26_DatePriority ==
    scrape_pc # "raised" /\
    (scrape_pc = "returned" =>
        LET o == DateOverride(regulation_key)
            oValid == Truthy(o) /\ ~FormatOjdate(o).raised
            cValid == Truthy(scraper_ojDate) /\ ~FormatOjdate(scraper_ojDate).raised
        IN  /\ oValid => ojDate_str = FormatOjdate(o).value
            /\ (~oValid /\ cValid) => ojDate_str = FormatOjdate(scraper_ojDate).value
            /\ (~oValid /\ ~cValid) => ojDate_str = Strftime(scraper_today)
            /\ IsCompact(ojDate_str))

C26_Witness ==
    /\ scrape_pc = "returned"
    /\ DateOverride(regulation_key) = DateString(<<"2", "0", "2", "5", "/", "0", "9", "/", "1", "0">>)
    /\ scraper_ojDate = DateString(<<"2", "0", "2", "5", "-", "0", "9", "-", "1", "1">>)
    /\ ojDate_str = <<"1", "1", "0", "9", "2", "0", "2", "5">>

----------------------------------------------------------------------------
(* The LLM boundary: AIComplianceAnalyzer.analyze_compliance *)

\* line 107: max_retries = 3
ApiMaxRetries == 3

RequiredKeys ==
    {"regulatory_requirements", "compliance_gaps", "action_items", "risks",
     "overall_compliance_score"}

\* The object the system prompt asks for.
FullJson == "{\"regulatory_requirements\": [\"GDPR\"], ...}"

\* What the model can write as content.
ContentTexts == {"I cannot answer that.", "", "[1, 2]", "42", "null", "{}", FullJson}

\* json.loads of a content: it raises JSONDecodeError, or gives an object
\* (with the keys the text has), or gives a value that is not an object.
JsonLoads(text) ==
    IF text = FullJson
    THEN [kind |-> "object",
          value |-> [keys |-> RequiredKeys, regulatory_requirements |-> <<"GDPR">>,
                     compliance_gaps |-> <<"No DPO">>, action_items |-> <<"Appoint a DPO">>,
                     risks |-> <<"Fine">>, overall_compliance_score |-> 70,
                     raw_response |-> "", business_info |-> ""]]
    ELSE IF text = "{}" THEN [kind |-> "object", value |-> NoResult]
    ELSE IF text \in {"[1, 2]", "42", "null"} THEN [kind |-> "other", value |-> NoResult]
    ELSE [kind |-> "error", value |-> NoResult]

ResponseBodies ==
    {Body("list", "missing", "missing", ""),
     Body("dict", "missing", "missing", ""),
     Body("dict", "null", "missing", ""),
     Body("dict", "empty", "missing", ""),
     Body("dict", "one", "missing", ""),
     Body("dict", "one", "null", "")}
        \cup {Body("dict", "one", "str", t) : t \in ContentTexts}

\* line 57: response.get('choices', [{}])[0].get('message', {}).get('content', '')
\* raises on a body that is not a dict and on choices that is null or empty.
ExtractContent(body) ==
    IF body.kind # "dict" \/ body.choices \in {"null", "empty"}
    THEN [raised |-> TRUE, content_kind |-> "missing", content |-> ""]
    ELSE IF body.choices = "missing" \/ body.content_kind = "missing"
    THEN [raised |-> FALSE, content_kind |-> "str", content |-> ""]
    ELSE [raised |-> FALSE, content_kind |-> body.content_kind, content |-> body.content]

\* lines 64-71
ParseFallback(response_content) ==
    [keys |-> RequiredKeys \cup {"raw_response"},
     regulatory_requirements |-> <<"Error parsing AI response">>,
     compliance_gaps |-> <<"Please try again">>,
     action_items |-> <<>>,
     risks |-> <<"Unable to complete analysis">>,
     overall_compliance_score |-> 0,
     raw_response |-> response_content,
     business_info |-> ""]

\* lines 74-75
WithMetadata(result, info) ==
    [result EXCEPT !.keys = @ \cup {"analysis_date", "business_info"},
                   !.business_info = info]

\* lines 80-88
ErrorResult ==
    [keys |-> RequiredKeys \cup {"error", "analysis_date"},
     regulatory_requirements |-> <<>>,
     compliance_gaps |-> <<>>,
     action_items |-> <<>>,
     risks |-> <<"Unable to complete analysis due to technical error">>,
     overall_compliance_score |-> 0,
     raw_response |-> "",
     business_info |-> ""]

\* A faulty analyze_compliance without the handler of line 79.
OnExceptionPropagate == [pc |-> "raised", result |-> NoResult]

\* lines 79-88: except Exception
OnException == [pc |-> "returned", result |-> ErrorResult]

\* lines 49-88: what becomes of the outcome of the API call.
AnalyzeCompliance(api_raised, body, info) ==
    IF api_raised \/ ExtractContent(body).raised THEN OnException
    ELSE LET e == ExtractContent(body)
         IN  IF e.content_kind = "null" THEN OnException
             ELSE IF JsonLoads(e.content).kind = "error"
             THEN [pc |-> "returned", result |-> WithMetadata(ParseFallback(e.content), info)]
             ELSE IF JsonLoads(e.content).kind = "other" THEN OnException
             ELSE [pc |-> "returned", result |-> WithMetadata(JsonLoads(e.content).value, info)]

BusinessInfos == {"Acme GmbH", "Beta SARL"}

\* A transport error, a status other than 200, or a 200 whose body is not JSON.
AttemptFailures == {"transport", "status", "undecodable"}

\* lines 47-51
EnterAnalyzeCompliance ==
    /\ pc = "idle"
    /\ analyzer_pc = "idle"
    /\ \E info \in BusinessInfos : business_info' = info
    /\ analyzer_pc' = "calling"
    /\ UNCHANGED <<attempt, api_log, api_response, analysis_result>>
    /\ UNCHANGED <<cycle_vars, loop_vars, fetch_vars, date_vars, ledger_vars, request_vars, web_vars>>

\* lines 110-138: one attempt fails; it is retried, or the last one raises.
ApiAttemptFails ==
    /\ analyzer_pc = "calling"
    /\ \E failure \in AttemptFailures : api_log' = Append(api_log, failure)
    /\ IF attempt < ApiMaxRetries - 1
       THEN attempt' = attempt + 1 /\ analyzer_pc' = "calling"
       ELSE attempt' = attempt /\ analyzer_pc' = "api_raised"
    /\ UNCHANGED <<business_info, api_response, analysis_result>>
    /\ UNCHANGED <<cycle_vars, loop_vars, fetch_vars, date_vars, ledger_vars, request_vars, web_vars>>

\* lines 120-121: status 200, response.json() is returned.
ApiAttemptSucceeds ==
    /\ analyzer_pc = "calling"
    /\ \E body \in ResponseBodies : api_response' = body
    /\ analyzer_pc' = "responded"
    /\ UNCHANGED <<business_info, attempt, api_log, analysis_result>>
    /\ UNCHANGED <<cycle_vars, loop_vars, fetch_vars, date_vars, ledger_vars, request_vars, web_vars>>

\* lines 56-88
AnalyzeComplianceReturns ==
    /\ analyzer_pc \in {"api_raised", "responded"}
    /\ LET out == AnalyzeCompliance(analyzer_pc = "api_raised", api_response, business_info)
       IN  /\ analysis_result' = out.result
           /\ analyzer_pc' = out.pc
    /\ UNCHANGED <<business_info, attempt, api_log, api_response>>
    /\ UNCHANGED <<cycle_vars, loop_vars, fetch_vars, date_vars, ledger_vars, request_vars, web_vars>>

NextAnalyzer ==
    \/ EnterAnalyzeCompliance
    \/ ApiAttemptFails
    \/ ApiAttemptSucceeds
    \/ AnalyzeComplianceReturns

SpecAnalyzer == InitLoop /\ [][NextAnalyzer]_vars

\* The content of the response is a string that json.loads rejects.
ContentNotJson ==
    /\ api_response.kind = "dict" /\ api_response.choices = "one"
    /\ api_response.content_kind = "str"
    /\ JsonLoads(api_response.content).kind = "error"

\* The content of the response is a string that json.loads reads as an object.
ContentIsObject ==
    /\ api_response.kind = "dict" /\ api_response.choices = "one"
    /\ api_response.content_kind = "str"
    /\ JsonLoads(api_response.content).kind = "object"

\* C24: when the content is not parseable, the object returned has empty
\* regulatory_requirements, compliance_gaps, action_items and risks, a score
\* of 0, and the raw text of the model.
C24_FallbackHasEmptyArrays ==
    (analyzer_pc = "returned" /\ ContentNotJson) =>
        /\ RequiredKeys \cup {"raw_response"} \subseteq analysis_result.keys
        /\ analysis_result.regulatory_requirements = <<>>
        /\ analysis_result.compliance_gaps = <<>>
        /\ analysis_result.action_items = <<>>
        /\ analysis_result.risks = <<>>
        /\ analysis_result.overall_compliance_score = 0
        /\ analysis_result.raw_response = api_response.content

\* C25: analyze_compliance never raises, and when the API call failed on
\* all attempts, or the response has no usable choices, or the content is not
\* JSON, or is JSON but not an object, what it returns has the keys
\* regulatory_requirements, compliance_gaps, action_items, risks and
\* overall_compliance_score.
C25_NeverRaisesAndHasKeys ==
    /\ analyzer_pc # "raised"
    /\ analyzer_pc = "api_raised" => Len(api_log) = ApiMaxRetries
    /\ (analyzer_pc = "returned" /\ ~ContentIsObject) =>
          RequiredKeys \subseteq analysis_result.keys

C25_Witness ==
    /\ analyzer_pc = "returned"
    /\ api_response = Body("dict", "one", "str", "[1, 2]")
    /\ "error" \in analysis_result.keys
    /\ Len(api_log) = 2

----------------------------------------------------------------------------
(* The alert ledger at the resolution of a second *)

\* lines 211-217 with the clock read to the second for the id and to the
\* microsecond for the date: the id is strftime('%Y%m%d_%H%M%S') of the
\* local time, which two firings share when two processes of the monitor
\* work on one ledger, or when the local clock is set back between two runs.
AlertEventAt(second, instant, count) ==
    [id |-> second, date |-> instant, update_count |-> count, updates_sent |-> TRUE]

FiringCounts == {DefaultAlertThreshold, DefaultAlertThreshold + 1}

\* lines 178-183 and 204-225 of one firing: the ledger is read from its
\* file, the entry is stored under its id, and the ledger is written back.
FireAlertInSecond ==
    /\ pc = "idle"
    /\ Len(fired) < MaxFirings
    /\ alerts_file.ok
    /\ \E second \in 0..MaxSecond, count \in FiringCounts :
        /\ client_alerts' = PutAlert(alerts_file.data,
                                     AlertEventAt(second, Len(fired) + 1, count))
        /\ fired' = Append(fired, [second |-> second, count |-> count])
    /\ alerts_file' = ReadableFile(client_alerts')
    /\ UNCHANGED <<now, cycles, pc, config_alert_threshold, config_ojDate, updates_file,
                   existing_updates, has_new_updates, updates,
                   clients, recent_update_count, pending, attempted, failed, events, added,
                   skipped, replay, prev_fetched, carried, resumed, armed, faults, fetcher,
                   html_body, sources_changed>>
    /\ UNCHANGED <<loop_vars, fetch_vars, date_vars, analyzer_vars, request_vars, web_vars>>

NextLedger == FireAlertInSecond

SpecLedger == InitLoop /\ [][NextLedger]_vars

FiringSeconds == {fired[i].second : i \in 1..Len(fired)}

LastFiringIn(second) ==
    CHOOSE i \in 1..Len(fired) :
        /\ fired[i].second = second
        /\ \A j \in 1..Len(fired) : fired[j].second = second => j <= i

\* C27: the id of an alert is its firing time to the second, so a firing in
\* a second in which an alert already fired replaces the entry of the earlier
\* one: the ledger holds one entry per second with a firing, that of the last
\* firing in it, and so one entry for two firings in the same second.
C27_OneEntryPerSecond ==
    /\ Cardinality(alerts_file.data) = Cardinality(FiringSeconds)
    /\ \A s \in FiringSeconds :
          \E e \in alerts_file.data :
              /\ e.id = s
              /\ e.date = LastFiringIn(s)
              /\ e.update_count = fired[LastFiringIn(s)].count

C27_Witness ==
    /\ Len(fired) = 2
    /\ fired[1].second = fired[2].second
    /\ fired[1].count # fired[2].count
    /\ Cardinality(alerts_file.data) = 1

----------------------------------------------------------------------------
(* The HTTP retry: EURegulatoryScraper._make_request *)

\* line 44: self.config.get('max_retries', 3)
DefaultMaxRetries == 3

MaxRetriesTried == {0, 1, DefaultMaxRetries}

\* One call of _make_request: its retry_count, and where it stands: about to
\* call session.get, or waiting for the nested call it made inside the try
\* block (lines 122 and 126) or inside the except block (line 132).
Frame(count, where) == [retry_count |-> count, pending |-> where]

Top(st) == st[Len(st)]

Pop(st) == SubSeq(st, 1, Len(st) - 1)

\* The top call makes the nested call _make_request(url, retry_count + 1).
Nest(st, where) ==
    Append([st EXCEPT ![Len(st)].pending = where], Frame(Top(st).retry_count + 1, "get"))

\* An exception leaves a call, the calls in st being those around it: a
\* caller that made the call inside its try block catches it at line 129 and,
\* below max_retries, calls again from the handler; otherwise the exception
\* goes on to the caller of that one.
RECURSIVE Unwind(_, _)
Unwind(st, limit) ==
    IF st = <<>> THEN st
    ELSE IF Top(st).pending = "try" /\ Top(st).retry_count < limit
    THEN Nest(st, "handler")
    ELSE Unwind(Pop(st), limit)

\* lines 129-134: the handler of the call on top of the stack.
HandleException(st, limit) ==
    IF Top(st).retry_count < limit THEN Nest(st, "handler") ELSE Unwind(Pop(st), limit)

\* lines 123-128: a status other than 200 and 429; the exception of line 128
\* is raised inside the try block, so the handler of the same call gets it.
HandleStatus(st, limit) ==
    IF Top(st).retry_count < limit THEN Nest(st, "try") ELSE HandleException(st, limit)

AfterFailure(st) == IF st = <<>> THEN "raised" ELSE "running"

EnterMakeRequest ==
    /\ pc = "idle"
    /\ request_pc = "idle"
    /\ \E limit \in MaxRetriesTried : max_retries' = limit
    /\ stack' = <<Frame(0, "get")>>
    /\ request_pc' = "running"
    /\ UNCHANGED attempts
    /\ UNCHANGED <<cycle_vars, loop_vars, fetch_vars, date_vars, analyzer_vars, ledger_vars, web_vars>>

\* lines 115-117: status 200, the response is returned through every call.
RequestSucceeds ==
    /\ request_pc = "running"
    /\ attempts' = attempts + 1
    /\ stack' = <<>>
    /\ request_pc' = "returned"
    /\ UNCHANGED max_retries
    /\ UNCHANGED <<cycle_vars, loop_vars, fetch_vars, date_vars, analyzer_vars, ledger_vars, web_vars>>

\* lines 118-122: status 429, the nested call is made whatever retry_count is.
RequestRateLimited ==
    /\ request_pc = "running"
    /\ Len(stack) < MaxDepth
    /\ attempts' = attempts + 1
    /\ stack' = Nest(stack, "try")
    /\ UNCHANGED <<request_pc, max_retries>>
    /\ UNCHANGED <<cycle_vars, loop_vars, fetch_vars, date_vars, analyzer_vars, ledger_vars, web_vars>>

\* lines 123-128
RequestFailsWithStatus ==
    /\ request_pc = "running"
    /\ attempts' = attempts + 1
    /\ stack' = HandleStatus(stack, max_retries)
    /\ request_pc' = AfterFailure(stack')
    /\ UNCHANGED max_retries
    /\ UNCHANGED <<cycle_vars, loop_vars, fetch_vars, date_vars, analyzer_vars, ledger_vars, web_vars>>

\* lines 115 and 129-134: session.get raises.
RequestRaises ==
    /\ request_pc = "running"
    /\ attempts' = attempts + 1
    /\ stack' = HandleException(stack, max_retries)
    /\ request_pc' = AfterFailure(stack')
    /\ UNCHANGED max_retries
    /\ UNCHANGED <<cycle_vars, loop_vars, fetch_vars, date_vars, analyzer_vars, ledger_vars, web_vars>>

NextRequest ==
    \/ EnterMakeRequest
    \/ RequestSucceeds
    \/ RequestRateLimited
    \/ RequestFailsWithStatus
    \/ RequestRaises

SpecRequest == InitLoop /\ [][NextRequest]_vars

\* C28: whatever the failing responses are, _make_request makes at most
\* max_retries + 1 HTTP attempts, and no call of it has a retry_count above
\* max_retries.
C28_BoundedByMaxRetries ==
    request_pc # "idle" =>
        /\ attempts <= max_retries + 1
        /\ \A i \in 1..Len(stack) : stack[i].retry_count <= max_retries

----------------------------------------------------------------------------
(* The value check_regulatory_updates returns *)

\* A faulty return that reports new records only when they were persisted.
ReturnValueIfSaved(fetch_raised, has_new) ==
    ~fetch_raised /\ has_new /\ ~HasEvent("save_failed")

\* line 129 (return False) and line 164 (return has_new_updates)
ReturnValue(fetch_raised, has_new) == IF fetch_raised THEN FALSE ELSE has_new

\* C29: check_regulatory_updates returns False when the fetch raised and when
\* no fetched title was new, and True whenever the merge appended at least
\* one record, also when the write of the log failed afterwards.
C29_ReturnsWhetherNewRecordsFound ==
    pc = "done" =>
        LET returned == ReturnValue(HasEvent("fetch_failed"), has_new_updates)
        IN  /\ HasEvent("fetch_failed") => ~returned
            /\ (~HasEvent("fetch_failed") /\ added = 0) => ~returned
            /\ added >= 1 => returned

C29_Witness ==
    /\ pc = "done"
    /\ added >= 1
    /\ HasEvent("save_failed")
    /\ ReturnValue(HasEvent("fetch_failed"), has_new_updates)

----------------------------------------------------------------------------
(* The web layer: sessions and the routes that serve a report *)

Emails == {"a@example.com", "b@example.com"}

Passwords == {"secret", "guess"}

\* What uuid4 can give for a client and for a report.
ClientIds == {"client_1", "client_2"}

ReportIds == {"report_1", "report_2"}

ReportTypes == {"compliance", "roadmap", "other"}

\* hash_password, lines 129-133
HashPassword(password) == <<"sha256", password>>

ClientRow(id, email, password) ==
    [id |-> id, email |-> email, password_hash |-> HashPassword(password)]

ReportRow(id, client_id) == [id |-> id, client_id |-> client_id]

\* lines 123-125: 'client_id' not in session
LoggedIn(browser) == session[browser] # NoValue

\* A faulty query that selects the report by its id alone.
SelectReportById(reports, report_id, client_id) == {r \in reports : r.id = report_id}

\* lines 407 and 437: SELECT * FROM reports WHERE id = ? AND client_id = ?
SelectReport(reports, report_id, client_id) ==
    {r \in reports : r.id = report_id /\ r.client_id = client_id}

\* lines 185-227: a registration that passes the checks inserts a row; the
\* INSERT fails on an id or an email already in the table.
Register ==
    /\ pc = "idle"
    /\ \E email \in Emails, password \in Passwords, confirm_password \in Passwords,
          id \in ClientIds :
        /\ password = confirm_password
        /\ \A c \in db_clients : c.email # email /\ c.id # id
        /\ db_clients' = db_clients \cup {ClientRow(id, email, password)}
    /\ UNCHANGED <<db_reports, session, response>>
    /\ UNCHANGED <<cycle_vars, loop_vars, fetch_vars, date_vars, analyzer_vars, ledger_vars, request_vars>>

\* lines 234-264: the session gets the id of the client whose email and
\* password hash match.
Login ==
    /\ pc = "idle"
    /\ \E browser \in Browsers, email \in Emails, password \in Passwords :
        \E client \in db_clients :
            /\ client.email = email
            /\ client.password_hash = HashPassword(password)
            /\ session' = [session EXCEPT ![browser] = <<client.id>>]
    /\ UNCHANGED <<db_clients, db_reports, response>>
    /\ UNCHANGED <<cycle_vars, loop_vars, fetch_vars, date_vars, analyzer_vars, ledger_vars, request_vars>>

\* lines 234-251: a login with an unknown email or a wrong password leaves
\* the session as it is.
LoginRefused ==
    /\ pc = "idle"
    /\ \E browser \in Browsers, email \in Emails, password \in Passwords :
        /\ \A client \in db_clients :
              client.email # email \/ client.password_hash # HashPassword(password)
        /\ session' = session
    /\ UNCHANGED <<db_clients, db_reports, response>>
    /\ UNCHANGED <<cycle_vars, loop_vars, fetch_vars, date_vars, analyzer_vars, ledger_vars, request_vars>>

\* lines 268-273: session.pop('client_id', None)
Logout ==
    /\ pc = "idle"
    /\ \E browser \in Browsers : session' = [session EXCEPT ![browser] = NoValue]
    /\ UNCHANGED <<db_clients, db_reports, response>>
    /\ UNCHANGED <<cycle_vars, loop_vars, fetch_vars, date_vars, analyzer_vars, ledger_vars, request_vars>>

\* lines 329-390: an analysis of a logged-in client stores a report under
\* the client_id of the session.
CompleteAnalysis ==
    /\ pc = "idle"
    /\ \E browser \in Browsers, report_id \in ReportIds :
        /\ LoggedIn(browser)
        /\ \E client \in db_clients : client.id = session[browser][1]
        /\ \A r \in db_reports : r.id # report_id
        /\ db_reports' = db_reports \cup {ReportRow(report_id, session[browser][1])}
    /\ UNCHANGED <<db_clients, session, response>>
    /\ UNCHANGED <<cycle_vars, loop_vars, fetch_vars, date_vars, analyzer_vars, ledger_vars, request_vars>>

\* lines 117-127 and 398-426
ViewReport ==
    /\ pc = "idle"
    /\ \E browser \in Browsers, report_id \in ReportIds :
        response' =
            IF ~LoggedIn(browser)
            THEN Response("view_report", report_id, NoValue, "redirect", NoValue)
            ELSE LET client_id == session[browser][1]
                     rows == SelectReport(db_reports, report_id, client_id)
                 IN  IF rows = {}
                     THEN Response("view_report", report_id, <<client_id>>, "redirect", NoValue)
                     ELSE Response("view_report", report_id, <<client_id>>, "data",
                                   <<(CHOOSE r \in rows : TRUE).client_id>>)
    /\ UNCHANGED <<db_clients, db_reports, session>>
    /\ UNCHANGED <<cycle_vars, loop_vars, fetch_vars, date_vars, analyzer_vars, ledger_vars, request_vars>>

\* lines 117-127 and 428-458
DownloadReport ==
    /\ pc = "idle"
    /\ \E browser \in Browsers, report_id \in ReportIds, report_type \in ReportTypes,
          file_exists \in BOOLEAN :
        response' =
            IF ~LoggedIn(browser)
            THEN Response("download_report", report_id, NoValue, "redirect", NoValue)
            ELSE LET client_id == session[browser][1]
                     rows == SelectReport(db_reports, report_id, client_id)
                 IN  IF rows = {} \/ report_type = "other" \/ ~file_exists
                     THEN Response("download_report", report_id, <<client_id>>, "redirect",
                                   NoValue)
                     ELSE Response("download_report", report_id, <<client_id>>, "file",
                                   <<(CHOOSE r \in rows : TRUE).client_id>>)
    /\ UNCHANGED <<db_clients, db_reports, session>>
    /\ UNCHANGED <<cycle_vars, loop_vars, fetch_vars, date_vars, analyzer_vars, ledger_vars, request_vars>>

NextWeb ==
    \/ Register
    \/ Login
    \/ LoginRefused
    \/ Logout
    \/ CompleteAnalysis
    \/ ViewReport
    \/ DownloadReport

SpecWeb == InitLoop /\ [][NextWeb]_vars

\* The client_id of the report with this id, when there is one.
OwnerOf(report_id) ==
    IF \E r \in db_reports : r.id = report_id
    THEN <<(CHOOSE r \in db_reports : r.id = report_id).client_id>>
    ELSE NoValue

\* C30: after any sequence of registrations, logins, logouts and analyses,
\* view_report and download_report answer with the data of a report only
\* when the session of the request holds a client_id and the report belongs
\* to that client; a request without a logged-in session, or for a report of
\* another client, is redirected and gets no data.  A session never holds
\* anything but the id of a registered client.
C30_ReportsServedToOwnerOnly ==
    /\ \A b \in Browsers :
          LoggedIn(b) => \E c \in db_clients : c.id = session[b][1]
    /\ response.route # "none" =>
          /\ response.kind \in {"data", "file"} =>
                /\ response.session_client # NoValue
                /\ OwnerOf(response.report_id) = response.session_client
                /\ response.owner = response.session_client
          /\ (response.session_client = NoValue
                \/ OwnerOf(response.report_id) # response.session_client) =>
                /\ response.kind = "redirect"
                /\ response.owner = NoValue

C30_Witness ==
    /\ response.route = "view_report"
    /\ response.session_client # NoValue
    /\ OwnerOf(response.report_id) # NoValue
    /\ OwnerOf(response.report_id) # response.session_client
    /\ response.kind = "redirect"
    /\ \E b \in Browsers : session[b] = OwnerOf(response.report_id)

====
